---- MODULE Spec2Model ----
(***************************************************************************)
(* Model of the API Stats Service data-access layer (src/app.py): the      *)
(* store functions log_call, get_last_called, get_most_frequent,           *)
(* get_counts and check_database_health, the connection helper             *)
(* get_db_connection, and the HTTP handlers that call them.                *)
(*                                                                         *)
(* Each request is handled by one of a fixed set of worker threads.  A     *)
(* worker runs one handler at a time, and every store round trip of the    *)
(* handler (connect, execute, fetch, commit, rollback, close) is a step of *)
(* its own, so the steps of two requests interleave freely.                *)
(*                                                                         *)
(* The backing store is PostgreSQL reached through psycopg2.  It is        *)
(* modelled by its transactional contract: an INSERT is held by the        *)
(* connection until commit, commit is atomic (it either publishes the      *)
(* pending rows or raises and publishes nothing), rollback and close       *)
(* discard pending rows, connection.close() never raises, and every other  *)
(* call may raise.  Columns request_body and status_code are written but   *)
(* read by no query, and are left out of the rows.                         *)
(***************************************************************************)
EXTENDS FiniteSets, Integers, Sequences, TLC

\* ---------------------------------------------------------------- bounds
\* Worker threads, and the last value of the clock.
NumProcs == 2
MaxClock == 1
\* Calls accepted in all: by concurrent callers of the store functions, by a
\* single sequential caller, and by the HTTP handlers.
MaxCalls == 2
MaxSeqCalls == 4
MaxRequests == 2

Procs == 1..NumProcs

\* ------------------------------------------------------------ Python values
\* Python's None where a string is expected.
None == "None"

\* Return values of the store functions, tagged by their Python type.
PyNone == [kind |-> "none"]
PyBool(b) == [kind |-> "bool", val |-> b]
PyRow(r) == [kind |-> "row", val |-> r]
PyRows(s) == [kind |-> "rows", val |-> s]

\* Truthiness as used by `if x:` / `if not x:` on a returned value.
Truthy(v) ==
    CASE v.kind = "none" -> FALSE
      [] v.kind = "bool" -> v.val
      [] v.kind = "row" -> TRUE
      [] v.kind = "rows" -> Len(v.val) > 0

\* `not endpoint` on a str-or-None argument (and, to compare, a test for None
\* alone).
FalsyNoneOnly(endpoint) == endpoint = None
Falsy(endpoint) == endpoint = None \/ endpoint = ""

\* ------------------------------------------------------------------ inputs
\* Strings that matter character by character (addresses) are sequences of
\* characters.
RemoteAddr == <<"9">>
XffChain == <<"5", ",", " ", "1">>
\* The X-Forwarded-For header: absent (<<>>) or present with a value.
XffHeaders == {<<>>, <<XffChain>>}

ValidEndpoints == {"/a", "/a/"}
Endpoints == {None, ""} \cup ValidEndpoints
RootPath == "/"
AllEndpoints == ValidEndpoints \cup {RootPath}
Methods == {"GET", "POST"}

VARIABLES
    table,      \* committed rows of api_calls
    open,       \* connection id -> [isOpen, pending]: the rows inserted, not committed
    clock,      \* the wall clock at its last reading; it never runs backwards
    nextId,     \* the serial behind api_calls.id
    calls,      \* number of requests accepted so far
    fr,         \* per worker: the frame of the request it is handling
    succ,       \* history: endpoint -> number of log_call invocations that returned True
    lastRec     \* history: the most recent committed write

vars == <<table, open, clock, nextId, calls, fr, succ, lastRec>>

NoRec == [id |-> 0]

\* One connection per worker is the most that can be open at a time.
ConnIds == Procs
ClosedConn == [isOpen |-> FALSE, pending |-> {}]
OpenedConn == [isOpen |-> TRUE, pending |-> {}]

IdleFrame ==
    [pc |-> "idle", op |-> "none", handler |-> "none", endpoint |-> None, method |-> "", ip |-> <<>>,
     xff |-> <<>>, conn |-> 0, cur |-> PyNone, ret |-> PyNone, exc |-> FALSE,
     abort |-> 0, faulted |-> FALSE, acq |-> 0, rowid |-> 0, t0 |-> 0,
     rb |-> FALSE, failOpen |-> FALSE, rbBeforeClose |-> FALSE,
     snap |-> NoRec, strictMax |-> FALSE, quiet |-> FALSE, seen |-> <<>>,
     sawEmpty |-> FALSE, overlap |-> FALSE]

WriteOps == {"log_call"}
ReadOps == {"last", "most", "counts"}

Init ==
    /\ table = {}
    /\ open = [c \in ConnIds |-> ClosedConn]
    /\ clock = 0
    /\ nextId = 1
    /\ calls = 0
    /\ fr = [p \in Procs |-> IdleFrame]
    /\ succ = [e \in AllEndpoints |-> 0]
    /\ lastRec = NoRec

\* ----------------------------------------------------------------- queries
Groups(T) == {r.endpoint : r \in T}
Count(T, e) == Cardinality({r \in T : r.endpoint = e})

\* ORDER BY count DESC: a may precede b (and, to compare, ascending order).
CountOrderAsc(a, b) == a <= b
CountOrder(a, b) == a >= b

\* The orders in which the store may return the groups (ties in any order).
Orderings(T) ==
    LET G == Groups(T)
        n == Cardinality(G)
    IN {f \in [1..n -> G] :
            \A i, j \in 1..n : i < j => f[i] # f[j] /\ CountOrder(Count(T, f[i]), Count(T, f[j]))}

\* SELECT endpoint, COUNT(*) as count FROM api_calls GROUP BY endpoint
\* ORDER BY count DESC; fetchall().
GetCountsQuery(T) ==
    {PyRows([i \in DOMAIN f |-> [endpoint |-> f[i], count |-> Count(T, f[i])]]) : f \in Orderings(T)}

\* The same query with LIMIT 1; fetchone() gives None when there is no row.
GetMostFrequentQuery(T) ==
    IF T = {} THEN {PyNone}
    ELSE {PyRow(s.val[1]) : s \in GetCountsQuery(T)}

\* ORDER BY called_at DESC: a may precede b (and, to compare, ascending order).
CalledAtOrderAsc(a, b) == a <= b
CalledAtOrder(a, b) == a >= b

Project(r) ==
    [endpoint |-> r.endpoint, method |-> r.method, ip_address |-> r.ip_address,
     called_at |-> r.called_at]

\* SELECT endpoint, method, ip_address, called_at FROM api_calls
\* ORDER BY called_at DESC LIMIT 1; fetchone().
GetLastCalledQuery(T) ==
    IF T = {} THEN {PyNone}
    ELSE {PyRow(Project(r)) : r \in {x \in T : \A y \in T : CalledAtOrder(x.called_at, y.called_at)}}

QueryResults(op, T) ==
    CASE op = "last" -> GetLastCalledQuery(T)
      [] op = "most" -> GetMostFrequentQuery(T)
      [] op = "counts" -> GetCountsQuery(T)
      [] op = "health" -> {PyRow([one |-> 1])}

\* What each store function returns from `if not conn` and from `except`.
FailureValue(op) == IF op \in ReadOps THEN PyNone ELSE PyBool(FALSE)

\* ------------------------------------------------------------ request entry
\* request.headers.get('X-Forwarded-For', request.remote_addr)
HeaderGet(xff, default) == IF xff = <<>> THEN default ELSE xff[1]

WriterInFlight(q) == fr[q].op \in WriteOps /\ fr[q].pc \notin {"idle", "return"}

\* First lines of log_call: the endpoint check, before any connection.
LogCallEntry(f) ==
    IF Falsy(f.endpoint)
    THEN [f EXCEPT !.ret = PyBool(FALSE), !.pc = "return"]
    ELSE [f EXCEPT !.pc = "connect"]

\* A store function other than log_call starts by connecting.
ReadEntry(f) == [f EXCEPT !.pc = "connect"]

\* The readings the clock can give now: any time from the last reading on.
Now == clock..MaxClock

\* Worker p takes frame f; history: the time just before the call, and writers
\* that run at the same time are marked.
Begin(p, f, max) ==
    /\ fr[p].pc = "idle"
    /\ calls < max
    /\ calls' = calls + 1
    /\ \E t \in (IF f.op \in WriteOps /\ f.pc = "connect" THEN Now ELSE {clock}) :
        /\ clock' = t
        /\ fr' = [q \in Procs |->
                    IF q = p
                    THEN [f EXCEPT !.t0 = t,
                                   !.overlap = f.pc = "connect" /\ f.op \in WriteOps
                                               /\ \E w \in Procs \ {p} : WriterInFlight(w)]
                    ELSE IF f.pc = "connect" /\ f.op \in WriteOps /\ WriterInFlight(q)
                         THEN [fr[q] EXCEPT !.overlap = TRUE]
                         ELSE fr[q]]
    /\ UNCHANGED <<table, open, nextId, succ, lastRec>>

\* The store functions invoked through their function contract, with any arguments.
LogCallFrame(endpoint, method, ip) ==
    LogCallEntry([IdleFrame EXCEPT !.op = "log_call", !.endpoint = endpoint,
                                   !.method = method, !.ip = ip])

ReadFrame(op) ==
    ReadEntry([IdleFrame EXCEPT !.op = op,
                  !.snap = IF op = "last" /\ lastRec.id # 0 /\ lastRec.returned
                           THEN lastRec ELSE NoRec])

LogCall(p) ==
    \E endpoint \in Endpoints :
        Begin(p, LogCallFrame(endpoint, "GET", RemoteAddr), MaxCalls)

GetLastCalled(p) == Begin(p, ReadFrame("last"), MaxCalls)
GetMostFrequent(p) == Begin(p, ReadFrame("most"), MaxCalls)
GetCounts(p) == Begin(p, ReadFrame("counts"), MaxCalls)
CheckDatabaseHealth(p) == Begin(p, ReadFrame("health"), MaxCalls)

\* The same functions called one after the other by a single caller.
SeqLogCall ==
    \E endpoint \in Endpoints, method \in Methods :
        Begin(1, LogCallFrame(endpoint, method, RemoteAddr), MaxSeqCalls)

SeqGetLastCalled == Begin(1, ReadFrame("last"), MaxSeqCalls)
SeqGetMostFrequent == Begin(1, ReadFrame("most"), MaxSeqCalls)
SeqGetCounts == Begin(1, ReadFrame("counts"), MaxSeqCalls)
SeqCheckDatabaseHealth == Begin(1, ReadFrame("health"), MaxSeqCalls)

\* Track.post
TrackPost(p) ==
    \E calledService \in Endpoints, xff \in XffHeaders :
        LET f == [IdleFrame EXCEPT !.op = "log_call", !.handler = "track",
                                   !.endpoint = calledService,
                                   !.method = "POST", !.xff = xff,
                                   !.ip = HeaderGet(xff, RemoteAddr)]
        IN IF Falsy(calledService)
           THEN Begin(p, [f EXCEPT !.op = "none", !.abort = 400, !.pc = "return"], MaxRequests)
           ELSE Begin(p, LogCallEntry(f), MaxRequests)

\* log_every_request, for a request to an endpoint that is not excluded.
LogEveryRequest(p) ==
    \E method \in Methods, xff \in XffHeaders :
        Begin(p, LogCallEntry([IdleFrame EXCEPT !.op = "log_call", !.handler = "auto",
                                                !.endpoint = RootPath,
                                                !.method = method, !.xff = xff,
                                                !.ip = HeaderGet(xff, RemoteAddr)]),
              MaxRequests)

\* LastCalled.get, MostFrequent.get, Counts.get, Health.get
LastCalledGet(p) == Begin(p, [ReadFrame("last") EXCEPT !.handler = "stats"], MaxRequests)
MostFrequentGet(p) == Begin(p, [ReadFrame("most") EXCEPT !.handler = "stats"], MaxRequests)
CountsGet(p) == Begin(p, [ReadFrame("counts") EXCEPT !.handler = "stats"], MaxRequests)
HealthGet(p) == Begin(p, [ReadFrame("health") EXCEPT !.handler = "health"], MaxRequests)

\* ------------------------------------------------------------ store steps
\* The connection object psycopg2.connect hands out: a new one at every call
\* (and, to compare, one connection shared by all callers).
SharedConnId(o) == 1
NewConnId(o) == CHOOSE c \in ConnIds : ~o[c].isOpen

\* get_db_connection, and the `if not conn` return of its caller.
GetDbConnection(p) ==
    /\ fr[p].pc = "connect"
    /\ \E fault \in BOOLEAN :
        IF fault
        THEN /\ fr' = [fr EXCEPT ![p].faulted = TRUE, ![p].ret = FailureValue(fr[p].op),
                                 ![p].pc = "return"]
             /\ UNCHANGED open
        ELSE LET c == NewConnId(open)
             IN /\ open' = [open EXCEPT ![c] = OpenedConn]
                /\ fr' = [fr EXCEPT ![p].conn = c, ![p].acq = @ + 1, ![p].pc = "execute"]
    /\ UNCHANGED <<table, clock, nextId, calls, succ, lastRec>>

\* Where log_call goes when execute or commit raises: the except clause (and,
\* to compare, straight to the finally clause).
PcSkipRollback == "close"
PcAfterWriteFailure == "rollback"

\* Where log_call goes when rollback itself raises: the finally clause (and, to
\* compare, out of the function with no finally clause).
PcSkipFinally == "return"
PcAfterRollbackRaise == "close"

\* The row of the INSERT statement of log_call; now is datetime.now().
NewRow(f, now) ==
    [id |-> nextId, endpoint |-> f.endpoint, method |-> f.method,
     ip_address |-> f.ip, called_at |-> now]

\* cur.execute(...) inside `with conn.cursor() as cur`.
Execute(p) ==
    LET f == fr[p]
        c == f.conn
    IN
    /\ f.pc = "execute"
    /\ \E fault \in BOOLEAN :
        LET bad == fault \/ ~open[c].isOpen
        IN IF f.op \in WriteOps
           THEN IF bad
                THEN /\ fr' = [fr EXCEPT ![p].faulted = @ \/ fault, ![p].failOpen = TRUE,
                                         ![p].pc = PcAfterWriteFailure]
                     /\ UNCHANGED <<open, nextId, clock>>
                ELSE /\ \E now \in Now :
                          /\ clock' = now
                          /\ open' = [open EXCEPT ![c].pending = @ \cup {NewRow(f, now)}]
                     /\ nextId' = nextId + 1
                     /\ fr' = [fr EXCEPT ![p].rowid = nextId, ![p].pc = "commit"]
           ELSE IF bad
                THEN /\ fr' = [fr EXCEPT ![p].faulted = @ \/ fault,
                                         ![p].ret = FailureValue(f.op), ![p].pc = "close"]
                     /\ UNCHANGED <<open, nextId, clock>>
                ELSE /\ \E r \in QueryResults(f.op, table) :
                          fr' = [fr EXCEPT
                                   ![p].cur = r,
                                   ![p].sawEmpty = (table = {}),
                                   ![p].quiet = \A w \in Procs \ {p} : fr[w].op \notin WriteOps,
                                   ![p].seen = succ,
                                   ![p].snap = IF f.snap.id # 0 /\ lastRec.id = f.snap.id
                                               THEN f.snap ELSE NoRec,
                                   ![p].strictMax = /\ f.snap.id # 0
                                                    /\ \A x \in table : x.id # f.snap.id
                                                          => x.called_at < f.snap.called_at,
                                   ![p].pc = "fetch"]
                     /\ UNCHANGED <<open, nextId, clock>>
    /\ UNCHANGED <<table, calls, succ, lastRec>>

\* cur.fetchone() / cur.fetchall(), and the return of the value fetched.
Fetch(p) ==
    LET f == fr[p]
    IN
    /\ f.pc = "fetch"
    /\ \E fault \in BOOLEAN :
        LET bad == fault \/ ~open[f.conn].isOpen
        IN fr' = [fr EXCEPT ![p].faulted = @ \/ fault,
                            ![p].cur = PyNone,
                            ![p].ret = IF bad THEN FailureValue(f.op)
                                       ELSE IF f.op = "health" THEN PyBool(TRUE)
                                       ELSE f.cur,
                            ![p].pc = "close"]
    /\ UNCHANGED <<table, open, clock, nextId, calls, succ, lastRec>>

\* conn.commit() and `return True`.
Commit(p) ==
    LET f == fr[p]
        c == f.conn
    IN
    /\ f.pc = "commit"
    /\ \E fault \in BOOLEAN :
        LET bad == fault \/ ~open[c].isOpen
        IN IF bad
           THEN /\ fr' = [fr EXCEPT ![p].faulted = @ \/ fault, ![p].failOpen = TRUE,
                                    ![p].pc = PcAfterWriteFailure]
                /\ UNCHANGED <<table, open, lastRec>>
           ELSE /\ table' = table \cup open[c].pending
                /\ open' = [open EXCEPT ![c].pending = {}]
                /\ fr' = [fr EXCEPT ![p].ret = PyBool(TRUE), ![p].pc = "close"]
                /\ lastRec' = IF \E r \in open[c].pending : r.id = f.rowid
                              THEN [id |-> f.rowid, endpoint |-> f.endpoint, method |-> f.method,
                                    ip |-> f.ip, t0 |-> f.t0,
                                    called_at |-> (CHOOSE r \in open[c].pending : r.id = f.rowid).called_at,
                                    returned |-> FALSE]
                              ELSE lastRec
    /\ UNCHANGED <<clock, nextId, calls, succ>>

\* conn.rollback() in the except clause, and `return False`.
Rollback(p) ==
    LET f == fr[p]
        c == f.conn
    IN
    /\ f.pc = "rollback"
    /\ \E fault \in BOOLEAN :
        LET bad == fault \/ ~open[c].isOpen
        IN IF bad
           THEN /\ fr' = [fr EXCEPT ![p].faulted = @ \/ fault, ![p].rb = TRUE,
                                    ![p].exc = TRUE, ![p].pc = PcAfterRollbackRaise]
                /\ UNCHANGED open
           ELSE /\ open' = [open EXCEPT ![c].pending = {}]
                /\ fr' = [fr EXCEPT ![p].rb = TRUE, ![p].ret = PyBool(FALSE), ![p].pc = "close"]
    /\ UNCHANGED <<table, clock, nextId, calls, succ, lastRec>>

\* conn.close() in the finally clause.
Close(p) ==
    LET f == fr[p]
    IN
    /\ f.pc = "close"
    /\ open' = [open EXCEPT ![f.conn] = ClosedConn]
    /\ fr' = [fr EXCEPT ![p].rbBeforeClose = f.rb, ![p].pc = "return"]
    /\ UNCHANGED <<table, clock, nextId, calls, succ, lastRec>>

\* The status the HTTP handler answers with, from what the store function gave
\* it; an exception that leaves the handler is answered with 500 by the framework.
\* 0: no response is decided here (a direct call, or the request goes on to its view).
StatusOf(f) ==
    CASE f.handler = "track" -> IF f.abort # 0 THEN f.abort
                                ELSE IF f.exc THEN 500
                                ELSE IF Truthy(f.ret) THEN 201 ELSE 500
      [] f.handler = "stats" -> IF Truthy(f.ret) THEN 200 ELSE 500
      [] f.handler = "health" -> IF Truthy(f.ret) THEN 200 ELSE 503
      [] f.handler = "auto" -> IF f.exc THEN 500 ELSE 0
      [] f.handler = "none" -> 0

\* The store function has returned (or its exception has left it); the handler
\* answers with StatusOf and the worker is free again.
Return(p) ==
    LET f == fr[p]
        ok == f.op \in WriteOps /\ ~f.exc /\ f.ret = PyBool(TRUE)
    IN
    /\ f.pc = "return"
    /\ fr' = [fr EXCEPT ![p] = IdleFrame]
    /\ succ' = IF ok THEN [succ EXCEPT ![f.endpoint] = @ + 1] ELSE succ
    /\ lastRec' = IF ok /\ lastRec.id # 0 /\ lastRec.id = f.rowid
                  THEN [lastRec EXCEPT !.returned = TRUE] ELSE lastRec
    /\ UNCHANGED <<table, open, clock, nextId, calls>>

\* The steps of a store function once it is entered.
StoreStep(p) ==
    \/ GetDbConnection(p)
    \/ Execute(p)
    \/ Fetch(p)
    \/ Commit(p)
    \/ Rollback(p)
    \/ Close(p)
    \/ Return(p)

\* The store functions called directly by any worker.
Next ==
    \/ \E p \in Procs : LogCall(p)
    \/ \E p \in Procs : GetLastCalled(p)
    \/ \E p \in Procs : GetMostFrequent(p)
    \/ \E p \in Procs : GetCounts(p)
    \/ \E p \in Procs : CheckDatabaseHealth(p)
    \/ \E p \in Procs : StoreStep(p)

Spec == Init /\ [][Next]_vars

\* Two callers of log_call and get_counts at the same time.
Callers == {1, 2}

NextTwo ==
    \/ \E p \in Callers : LogCall(p)
    \/ \E p \in Callers : GetCounts(p)
    \/ \E p \in Callers : StoreStep(p)

SpecTwo == Init /\ [][NextTwo]_vars

\* One caller, one call at a time.
NextSeq ==
    \/ SeqLogCall
    \/ SeqGetLastCalled
    \/ SeqGetMostFrequent
    \/ SeqGetCounts
    \/ SeqCheckDatabaseHealth
    \/ StoreStep(1)

SpecSeq == Init /\ [][NextSeq]_vars

\* The HTTP handlers calling the store functions.
NextHttp ==
    \/ \E p \in Procs : TrackPost(p)
    \/ \E p \in Procs : LogEveryRequest(p)
    \/ \E p \in Procs : LastCalledGet(p)
    \/ \E p \in Procs : MostFrequentGet(p)
    \/ \E p \in Procs : CountsGet(p)
    \/ \E p \in Procs : HealthGet(p)
    \/ \E p \in Procs : StoreStep(p)

SpecHttp == Init /\ [][NextHttp]_vars

\* ---------------------------------------------------------------- properties
\* A frame is observed when its store function has returned: pc = "return".
Returned(p) == fr[p].pc = "return"

OpenConns == {c \in ConnIds : open[c].isOpen}
Pending == UNION {open[c].pending : c \in ConnIds}
HoldingPcs == {"execute", "fetch", "commit", "rollback", "close"}

RECURSIVE SumOver(_, _)
SumOver(fn, S) ==
    IF S = {} THEN 0
    ELSE LET e == CHOOSE x \in S : TRUE
         IN fn[e] + SumOver(fn, S \ {e})

\* The rows a frame's INSERT has left in the table.
RowsOf(f) == {r \in table : f.rowid # 0 /\ r.id = f.rowid}

\* log_call invocations that have committed and not yet been counted in succ.
Committed(e) ==
    Cardinality({p \in Procs : /\ fr[p].op = "log_call"
                               /\ fr[p].endpoint = e
                               /\ fr[p].ret = PyBool(TRUE)})

\* C1: a log_call that fails after its connection was opened (the insert or the
\* commit raised) has had rollback invoked on the connection before the
\* connection was closed, and has left no row; a log_call that returned False
\* has left no row, one that returned True has left exactly one row, the one
\* submitted; and the table holds one row per log_call that returned True.
C1_RollbackBeforeClose ==
    /\ \A p \in Procs :
        LET f == fr[p]
        IN (f.op = "log_call" /\ Returned(p)) =>
            /\ f.failOpen => (f.rbBeforeClose /\ RowsOf(f) = {})
            /\ f.ret = PyBool(FALSE) => RowsOf(f) = {}
            /\ f.ret = PyBool(TRUE) =>
                 /\ Cardinality(RowsOf(f)) = 1
                 /\ \A r \in RowsOf(f) : /\ r.endpoint = f.endpoint
                                         /\ r.method = f.method
                                         /\ r.ip_address = f.ip
    /\ Cardinality(table) =
          SumOver(succ, AllEndpoints) + SumOver([e \in AllEndpoints |-> Committed(e)], AllEndpoints)

\* C1 witness: the insert succeeded, the commit raised, rollback ran before the
\* close, log_call returned False and the inserted row is not in the table.
C1_Witness ==
    \E p \in Procs :
        /\ Returned(p) /\ fr[p].op = "log_call"
        /\ fr[p].rowid # 0 /\ fr[p].failOpen /\ fr[p].rbBeforeClose
        /\ fr[p].ret = PyBool(FALSE)
        /\ RowsOf(fr[p]) = {}

\* C2: every store function acquires at most one connection per invocation, the
\* open connections are exactly those of the invocations between their connect
\* and their close, and so none is open once every invocation has returned.
C2_ConnectionsReleased ==
    /\ \A p \in Procs : fr[p].acq <= 1
    /\ \A p \in Procs : fr[p].pc \in HoldingPcs => fr[p].conn \in OpenConns
    /\ Cardinality(OpenConns) = Cardinality({p \in Procs : fr[p].pc \in HoldingPcs})
    /\ (\A p \in Procs : fr[p].pc \in {"idle", "return"}) => OpenConns = {}

\* C2 witness: a log_call whose rollback raised has left with its one connection
\* closed, and no connection is open.
C2_Witness ==
    \E p \in Procs :
        /\ Returned(p) /\ fr[p].exc /\ fr[p].acq = 1
        /\ OpenConns = {}

\* C3: no store fault leaves a store function as an exception.
C3_NoFaultEscapes == \A p \in Procs : ~fr[p].exc

\* An endpoint argument that is empty or absent.
EmptyOrAbsent(endpoint) == endpoint \in {None, ""}

\* C4: log_call with an empty or absent endpoint returns False with no
\* connection ever acquired and no statement sent, whatever the other arguments
\* and whatever the store does; no row with such an endpoint exists.
C4_EmptyEndpointRejected ==
    /\ \A p \in Procs :
        LET f == fr[p]
        IN (f.op = "log_call" /\ EmptyOrAbsent(f.endpoint)) =>
            /\ Returned(p)
            /\ f.ret = PyBool(FALSE)
            /\ f.acq = 0 /\ f.conn = 0 /\ f.rowid = 0
            /\ ~f.faulted /\ ~f.exc
    /\ \A r \in table \cup Pending : ~EmptyOrAbsent(r.endpoint)

\* C4 witness: log_call("") has returned False without a connection.
C4_Witness ==
    \E p \in Procs :
        /\ Returned(p) /\ fr[p].op = "log_call"
        /\ fr[p].endpoint = "" /\ fr[p].ret = PyBool(FALSE) /\ fr[p].acq = 0

\* The value s of get_counts agrees with the numbers cnt of successful log_calls.
CountsMatch(s, cnt) ==
    LET called == {e \in AllEndpoints : cnt[e] > 0}
    IN /\ {s[i].endpoint : i \in DOMAIN s} = called
       /\ Len(s) = Cardinality(called)
       /\ \A i \in DOMAIN s : s[i].count = cnt[s[i].endpoint]
       /\ SumOver([i \in DOMAIN s |-> s[i].count], DOMAIN s) = SumOver(cnt, AllEndpoints)
       /\ \A i, j \in DOMAIN s : i < j => s[i].count >= s[j].count

\* C5: after a sequence of log_call invocations, get_counts returns one
\* (endpoint, count) pair per distinct endpoint, count being the number of
\* invocations with that endpoint that returned True, summing to the number of
\* all that returned True, in descending order of count.
C5_CountsMatchSuccesses ==
    \A p \in Procs :
        LET f == fr[p]
        IN (f.op = "counts" /\ Returned(p) /\ f.ret.kind = "rows" /\ f.quiet) =>
            CountsMatch(f.ret.val, f.seen)

\* C5 witness: get_counts has returned two pairs with different counts.
C5_Witness ==
    \E p \in Procs :
        /\ Returned(p) /\ fr[p].op = "counts" /\ fr[p].ret.kind = "rows" /\ fr[p].quiet
        /\ Len(fr[p].ret.val) = 2
        /\ fr[p].ret.val[1].count > fr[p].ret.val[2].count
        /\ CountsMatch(fr[p].ret.val, fr[p].seen)

\* The frame of a get_last_called that started after the latest write had
\* returned True and ran its query with no other write in between.
FollowsRecord(p) ==
    /\ fr[p].op = "last" /\ Returned(p)
    /\ fr[p].ret.kind = "row"
    /\ fr[p].snap.id # 0

\* C6 as stated: the row get_last_called returns right after a successful
\* log_call carries the endpoint, method and ip submitted, and a called_at not
\* before the time just before the call.
C6_LastIsSubmitted ==
    \A p \in Procs :
        FollowsRecord(p) =>
            LET r == fr[p].ret.val
                w == fr[p].snap
            IN /\ r.endpoint = w.endpoint
               /\ r.method = w.method
               /\ r.ip_address = w.ip
               /\ r.called_at >= w.t0

\* C6 amended: the row returned has a called_at not before that of the row
\* submitted, which is not before the time just before the call; it carries the
\* endpoint, method and ip submitted when every other row is strictly older.
C6_LastIsNewest ==
    \A p \in Procs :
        FollowsRecord(p) =>
            LET r == fr[p].ret.val
                w == fr[p].snap
            IN /\ r.called_at >= w.called_at
               /\ w.called_at >= w.t0
               /\ fr[p].strictMax =>
                    /\ r.endpoint = w.endpoint
                    /\ r.method = w.method
                    /\ r.ip_address = w.ip
                    /\ r.called_at = w.called_at

\* C6 witness: with an older row in the table, get_last_called has returned the
\* row just submitted.
C6_Witness ==
    \E p \in Procs :
        /\ FollowsRecord(p) /\ fr[p].strictMax
        /\ Cardinality(table) >= 2
        /\ fr[p].ret.val.endpoint = fr[p].snap.endpoint
        /\ fr[p].ret.val.called_at = fr[p].snap.called_at

\* The count get_counts value s gives for endpoint e, 0 when e is not listed.
CountIn(s, e) ==
    IF \E i \in DOMAIN s : s[i].endpoint = e
    THEN s[CHOOSE i \in DOMAIN s : s[i].endpoint = e].count
    ELSE 0

\* C7: a log_call with a valid endpoint that met no store fault returns True,
\* whatever other invocations run at the same time, and leaves its one row; any
\* get_counts run now lists, for every endpoint, the number of invocations that
\* succeeded with it.
C7_NoLostWrite ==
    /\ \A p \in Procs :
        LET f == fr[p]
        IN (f.op = "log_call" /\ Returned(p) /\ f.endpoint \in ValidEndpoints /\ ~f.faulted) =>
            /\ f.ret = PyBool(TRUE)
            /\ Cardinality(RowsOf(f)) = 1
            /\ \A r \in RowsOf(f) : r.endpoint = f.endpoint
    /\ \A s \in GetCountsQuery(table) : \A e \in AllEndpoints :
          CountIn(s.val, e) = succ[e] + Committed(e)

\* C7 witness: two log_calls for different endpoints ran at the same time, both
\* have returned True, and get_counts lists both endpoints.
C7_Witness ==
    \E p, q \in Procs :
        /\ p # q /\ Returned(p) /\ Returned(q)
        /\ fr[p].op = "log_call" /\ fr[q].op = "log_call"
        /\ fr[p].overlap /\ fr[q].overlap
        /\ fr[p].endpoint # fr[q].endpoint
        /\ fr[p].ret = PyBool(TRUE) /\ fr[q].ret = PyBool(TRUE)
        /\ \A s \in GetCountsQuery(table) :
              CountIn(s.val, fr[p].endpoint) >= 1 /\ CountIn(s.val, fr[q].endpoint) >= 1

\* C8: a read that met a connection or query failure returns something other
\* than what the same read returns from a reachable store with an empty table.
C8_FailureDiffersFromEmpty ==
    \A p, q \in Procs :
        ( /\ p # q /\ Returned(p) /\ Returned(q)
          /\ fr[p].op \in ReadOps /\ fr[q].op = fr[p].op
          /\ fr[p].faulted
          /\ ~fr[q].faulted /\ fr[q].sawEmpty )
        => fr[p].ret # fr[q].ret

\* C9: with the store reachable and the table empty, get_counts gives an empty
\* sequence and get_last_called gives None, and /stats/counts and /stats/last
\* answer with success.
C9_EmptyIsSuccess ==
    \A p \in Procs :
        LET f == fr[p]
        IN ( /\ Returned(p) /\ f.handler = "stats" /\ f.op \in {"counts", "last"}
             /\ ~f.faulted /\ f.sawEmpty )
           => /\ f.op = "counts" => f.ret = PyRows(<<>>)
              /\ f.op = "last" => f.ret = PyNone
              /\ StatusOf(f) = 200

\* The first comma-separated segment of s, without surrounding blanks.
RECURSIVE FirstSegment(_)
FirstSegment(s) ==
    IF s = <<>> \/ Head(s) = "," THEN <<>>
    ELSE <<Head(s)>> \o FirstSegment(Tail(s))

RECURSIVE TrimLeft(_)
TrimLeft(s) == IF s # <<>> /\ Head(s) = " " THEN TrimLeft(Tail(s)) ELSE s

RECURSIVE TrimRight(_)
TrimRight(s) ==
    IF s # <<>> /\ s[Len(s)] = " " THEN TrimRight(SubSeq(s, 1, Len(s) - 1)) ELSE s

ClientIp(xff, peer) == TrimRight(TrimLeft(FirstSegment(HeaderGet(xff, peer))))

\* C10: the row a track request stores carries as ip_address the first
\* comma-separated segment, trimmed, of X-Forwarded-For when the header is
\* present, else the peer address.
C10_FirstForwardedAddress ==
    \A p \in Procs :
        LET f == fr[p]
        IN (Returned(p) /\ f.handler = "track" /\ f.ret = PyBool(TRUE)) =>
            \A r \in RowsOf(f) : r.ip_address = ClientIp(f.xff, RemoteAddr)

====
